---- MODULE Spec2Model ----
(***************************************************************************)
(* A model of the OrpheusDL helper programs:                               *)
(*   - the two album selectors (interactive_album_selector.py, the plain   *)
(*     menu, and tui_album_selector.py, the terminal-UI variant),          *)
(*   - the directory sync utility (sync_music.py).                         *)
(* Strings are TLA+ strings; text is handled character by character the    *)
(* way the Python code handles it (strip, startswith, split, int, str).    *)
(***************************************************************************)
EXTENDS Integers, Sequences, FiniteSets, TLC

(***************************************************************************)
(* Bounds of the model.                                                    *)
(***************************************************************************)
\* the longest selection the model lets the lists grow to
MaxSel == 3

\* the longest selection where the files written are part of the state
MaxSaved == 2

\* login calls counted in one run of the login probe
MaxLogins == 2

VARIABLES
    ui,              \* which selector runs: "menu" or "tui"
    selected_albums, \* self.selected_albums
    album_urls,      \* self.album_urls
    last,            \* what the last operation was and what it printed (history)
    fs,              \* the links files on disk: name -> [exists, text]
    pyhash,          \* this process's str hash (salted per process by Python)
    gen,             \* the last call of generate_album_url (SpecUrl)
    sync,            \* the state of one run of sync_music (SpecSync)
    fmt,             \* the last call of format_size (SpecSize)
    probe,           \* the state of one run of the login probe (SpecLogin)
    search           \* where search_workflow stands and what it fetched (SpecSearch)

vars == <<ui, selected_albums, album_urls, last, fs, pyhash, gen, sync, fmt, probe, search>>

(***************************************************************************)
(* Python's str and int primitives, as the code uses them.                 *)
(***************************************************************************)
Chr(s, i) == SubSeq(s, i, i)

\* the characters str.strip() and str.split() treat as whitespace
IsSpace(c) == c \in {" ", "\t", "\n", "\r"}

RECURSIVE LStrip(_)
LStrip(s) ==
    IF Len(s) > 0 /\ IsSpace(Chr(s, 1)) THEN LStrip(SubSeq(s, 2, Len(s))) ELSE s

RECURSIVE RStrip(_)
RStrip(s) ==
    IF Len(s) > 0 /\ IsSpace(Chr(s, Len(s))) THEN RStrip(SubSeq(s, 1, Len(s) - 1)) ELSE s

\* str.strip()
Strip(s) == RStrip(LStrip(s))

\* str.startswith(p)
StartsWith(s, p) == Len(s) >= Len(p) /\ SubSeq(s, 1, Len(p)) = p

\* position of the first "\n" of s at or after i, 0 when there is none
RECURSIVE NewlineAt(_, _)
NewlineAt(s, i) ==
    IF i > Len(s) THEN 0
    ELSE IF Chr(s, i) = "\n" THEN i
    ELSE NewlineAt(s, i + 1)

\* f.readlines(): the lines of the text, each with its "\n" when it has one
RECURSIVE ReadLines(_)
ReadLines(text) ==
    IF Len(text) = 0 THEN <<>>
    ELSE LET k == NewlineAt(text, 1)
         IN IF k = 0 THEN <<text>>
            ELSE <<SubSeq(text, 1, k)>> \o ReadLines(SubSeq(text, k + 1, Len(text)))

Digits == <<"0", "1", "2", "3", "4", "5", "6", "7", "8", "9">>

IsDigit(c) == \E d \in 1..10 : Digits[d] = c

DigitVal(c) == (CHOOSE d \in 1..10 : Digits[d] = c) - 1

\* str(n) for an integer n
RECURSIVE NatToStr(_)
NatToStr(n) ==
    IF n < 10 THEN Digits[n + 1] ELSE NatToStr(n \div 10) \o Digits[(n % 10) + 1]

IntToStr(n) == IF n < 0 THEN "-" \o NatToStr(0 - n) ELSE NatToStr(n)

RECURSIVE DigitsVal(_, _)
DigitsVal(s, acc) ==
    IF Len(s) = 0 THEN acc
    ELSE DigitsVal(SubSeq(s, 2, Len(s)), acc * 10 + DigitVal(Chr(s, 1)))

AllDigits(s) == Len(s) > 0 /\ \A i \in 1..Len(s) : IsDigit(Chr(s, i))

\* int(tok): [ok |-> FALSE] stands for ValueError
ParseInt(tok) ==
    LET signed == Len(tok) > 0 /\ Chr(tok, 1) \in {"-", "+"}
        body   == IF signed THEN SubSeq(tok, 2, Len(tok)) ELSE tok
    IN IF ~AllDigits(body) THEN [ok |-> FALSE, val |-> 0]
       ELSE [ok  |-> TRUE,
             val |-> IF signed /\ Chr(tok, 1) = "-"
                       THEN 0 - DigitsVal(body, 0) ELSE DigitsVal(body, 0)]

\* c.isalnum() (ASCII letters and digits)
IsAlnum(c) ==
    \/ IsDigit(c)
    \/ c \in {"a", "b", "c", "d", "e", "f", "g", "h", "i", "j", "k", "l", "m",
              "n", "o", "p", "q", "r", "s", "t", "u", "v", "w", "x", "y", "z",
              "A", "B", "C", "D", "E", "F", "G", "H", "I", "J", "K", "L", "M",
              "N", "O", "P", "Q", "R", "S", "T", "U", "V", "W", "X", "Y", "Z"}

(***************************************************************************)
(* The collaborators' data the selectors read: the module settings of the  *)
(* Orpheus library and the album records (AlbumInfo objects) it returns.   *)
(* An object is a record with the set of attributes it has (attrs) and     *)
(* their values; a value of an absent attribute is never read.             *)
(***************************************************************************)
HasAttr(obj, a) == a \in obj.attrs

\* orpheus.module_settings: module name -> its settings object
module_settings ==
    [m \in {"qobuz", "mymusic", "tidal", "plain", "bare"} |->
        CASE m = "qobuz" ->
               [attrs |-> {"url_constants", "netlocation_constant"},
                url_constants |-> <<[path |-> "track", type |-> "track"],
                                    [path |-> "album", type |-> "album"],
                                    [path |-> "artist", type |-> "artist"]>>,
                netloc_is_list |-> FALSE,
                netlocation_constant |-> <<"qobuz">>]
          [] m = "mymusic" ->
               [attrs |-> {"url_constants", "netlocation_constant"},
                url_constants |-> <<[path |-> "playlist", type |-> "playlist"],
                                    [path |-> "release", type |-> "album"]>>,
                netloc_is_list |-> TRUE,
                netlocation_constant |-> <<"mymusic", "mymusic2">>]
          [] m = "tidal" ->
               [attrs |-> {"url_constants", "netlocation_constant"},
                url_constants |-> <<[path |-> "track", type |-> "track"]>>,
                netloc_is_list |-> FALSE,
                netlocation_constant |-> <<"tidal">>]
          [] m = "plain" ->
               [attrs |-> {"url_constants", "netlocation_constant"},
                url_constants |-> <<>>,
                netloc_is_list |-> FALSE,
                netlocation_constant |-> <<"plain">>]
          [] OTHER ->
               [attrs |-> {"netlocation_constant"},
                url_constants |-> <<>>,
                netloc_is_list |-> FALSE,
                netlocation_constant |-> <<"bare">>]]

\* the module names a caller may pass: the five above and an unknown one
ModuleNames == DOMAIN module_settings \cup {"nosuch"}

\* domain_mapping.get(netloc_constant, f"{netloc_constant}.com")
DomainOf(netloc) ==
    CASE netloc = "qobuz"   -> "play.qobuz.com"
      [] netloc = "tidal"   -> "tidal.com"
      [] netloc = "spotify" -> "open.spotify.com"
      [] netloc = "deezer"  -> "deezer.com"
      [] netloc = "apple"   -> "music.apple.com"
      [] OTHER              -> netloc \o ".com"

\* the path 'album' whatever the table holds
AlbumPathDefault(url_constants) == "album"

\* the first path of url_constants whose type is album, 'album' when none
RECURSIVE AlbumPathOf(_)
AlbumPathOf(url_constants) ==
    IF Len(url_constants) = 0 THEN "album"
    ELSE IF Head(url_constants).type = "album" THEN Head(url_constants).path
    ELSE AlbumPathOf(Tail(url_constants))

\* an album record: the attributes it has, and their values
Album(attrs, name, artist, year, album_id, id, albumId, albumID) ==
    [attrs |-> attrs, name |-> name, artist |-> artist, release_year |-> year,
     album_id |-> album_id, id |-> id, albumId |-> albumId, albumID |-> albumID]

\* the strings the pseudo-identifier hashes: f"{name}_{artist}_{release_year}"
HashKey(album) == album.name \o "_" \o album.artist \o "_" \o album.release_year

\* a hash that changes from call to call within one process
PyHashPerCall(s) == IF gen.called THEN "-73459" ELSE pyhash[s]

\* values hash() can return, as Python prints them (64-bit signed)
HashValues == {"8214571979341372109", "-4461037205566440207", "-73459"}

\* hash(s) in this process
PyHash(s) == pyhash[s]

\* str(abs(h)) for h printed as a decimal string
AbsStr(h) == IF StartsWith(h, "-") THEN SubSeq(h, 2, Len(h)) ELSE h

\* s[:n]
Prefix(s, n) == SubSeq(s, 1, IF Len(s) < n THEN Len(s) ELSE n)

\* str(abs(hash(f"{name}_{artist}_{release_year}")))[:10]
PseudoId(album) == Prefix(AbsStr(PyHash(HashKey(album))), 10)

\* the identifier found by probing the record's attributes; "" when none is found
\*   menu: album_id, else id, else the instance attributes album_id, id, albumId, albumID
\*   tui:  album_id, else id
ProbeAlbumId(v, album) ==
    IF HasAttr(album, "album_id") /\ album.album_id # "" THEN album.album_id
    ELSE IF HasAttr(album, "id") THEN album.id
    ELSE IF v = "menu" /\ HasAttr(album, "albumId") /\ album.albumId # "" THEN album.albumId
    ELSE IF v = "menu" /\ HasAttr(album, "albumID") /\ album.albumID # "" THEN album.albumID
    ELSE ""

\* the body of the try block of generate_album_url: [ok |-> FALSE] when it raises
TryGenerateUrl(v, module_name, album) ==
    IF module_name \notin DOMAIN module_settings THEN [ok |-> FALSE, url |-> ""]
    ELSE LET st == module_settings[module_name]
         IN IF ~HasAttr(st, "url_constants") \/ ~HasAttr(st, "netlocation_constant")
              THEN [ok |-> FALSE, url |-> ""]
            ELSE IF st.netloc_is_list /\ Len(st.netlocation_constant) = 0
              THEN [ok |-> FALSE, url |-> ""]
            ELSE
              LET domain == DomainOf(st.netlocation_constant[1])
                  path   == AlbumPathOf(st.url_constants)
                  probed == ProbeAlbumId(v, album)
              IN IF probed # ""
                   THEN [ok |-> TRUE, url |-> "https://" \o domain \o "/" \o path \o "/" \o probed]
                 ELSE IF {"name", "artist", "release_year"} \subseteq album.attrs
                   THEN [ok |-> TRUE,
                         url |-> "https://" \o domain \o "/" \o path \o "/" \o PseudoId(album)]
                 ELSE [ok |-> FALSE, url |-> ""]

\* "".join(c for c in name if c.isalnum() or c in (' ', '-', '_'))
RECURSIVE KeepSafe(_)
KeepSafe(s) ==
    IF Len(s) = 0 THEN ""
    ELSE LET c == Chr(s, 1)
         IN (IF IsAlnum(c) \/ c \in {" ", "-", "_"} THEN c ELSE "")
            \o KeepSafe(SubSeq(s, 2, Len(s)))

\* the except handler of generate_album_url: it reads name, release_year and
\* artist of the record, and raises AttributeError when one of them is absent
FallbackComment(album) ==
    IF {"name", "artist", "release_year"} \subseteq album.attrs
      THEN [raised |-> FALSE,
            url |-> "# " \o Strip(KeepSafe(album.name)) \o " (" \o album.release_year
                    \o ") - " \o album.artist]
      ELSE [raised |-> TRUE, url |-> ""]

\* generate_album_url(module_name, album_info): the string it returns, or raised
GenerateAlbumUrl(v, module_name, album) ==
    LET t == TryGenerateUrl(v, module_name, album)
    IN IF t.ok THEN [raised |-> FALSE, url |-> t.url] ELSE FallbackComment(album)

(***************************************************************************)
(* Selection-list mutation: add, remove, clear, load.  Each handler is an  *)
(* operator from the two lists (and its input) to the two lists and what   *)
(* it printed; v is the selector, "menu" or "tui".                         *)
(***************************************************************************)
Selectors == {"menu", "tui"}

\* the dict add_selected_albums appends for an album
AddedRecord(module_name, album, artist_name) ==
    [artist |-> artist_name, album |-> album.name, year |-> album.release_year,
     module |-> module_name, album_info |-> album]

\* the dict load_existing_file appends for a line of the file
LoadedRecord(line) ==
    [artist |-> "Unknown", album |-> "Unknown", year |-> "Unknown",
     module |-> "Unknown", url |-> line]

\* the loop of add_selected_albums; raised: an AttributeError left the loop
RECURSIVE AddLoop(_, _, _, _, _, _)
AddLoop(v, sel, urls, module_name, albums, artist_name) ==
    IF Len(albums) = 0 THEN [albums |-> sel, urls |-> urls, raised |-> FALSE]
    ELSE LET a == Head(albums)
         IN IF ~({"name", "release_year"} \subseteq a.attrs)
              THEN [albums |-> sel, urls |-> urls, raised |-> TRUE]
            ELSE LET sel1 == Append(sel, AddedRecord(module_name, a, artist_name))
                     g    == GenerateAlbumUrl(v, module_name, a)
                 IN IF g.raised
                      THEN [albums |-> sel1, urls |-> urls, raised |-> TRUE]
                    ELSE AddLoop(v, sel1, Append(urls, g.url), module_name,
                                 Tail(albums), artist_name)

\* add_selected_albums(module_name, albums, artist_name)
AddSelected(v, sel, urls, module_name, albums, artist_name) ==
    AddLoop(v, sel, urls, module_name, albums, artist_name)

\* list.pop(i) for a 0-based i inside the list
PopAt(seq, i) == SubSeq(seq, 1, i) \o SubSeq(seq, i + 2, Len(seq))

Max(S) == CHOOSE x \in S : \A y \in S : y <= x

\* seq without its first occurrence of x
RECURSIVE DropFirst(_, _)
DropFirst(seq, x) ==
    IF Len(seq) = 0 THEN <<>>
    ELSE IF Head(seq) = x THEN Tail(seq)
    ELSE <<Head(seq)>> \o DropFirst(Tail(seq), x)

\* the indices left in command order: what the pops would use without the sort
InCommandOrder(seq) == seq

\* sorted(indices, reverse=True)
RECURSIVE SortedReverse(_)
SortedReverse(seq) ==
    IF Len(seq) = 0 THEN <<>>
    ELSE LET m == Max({seq[i] : i \in 1..Len(seq)})
         IN <<m>> \o SortedReverse(DropFirst(seq, m))

\* the validation loop of a remove command: the 0-based indices kept and the
\* tokens reported as 'Invalid album number'; value_error: int(num) raised;
\* stopped: the loop returned at an invalid token (tui)
RECURSIVE ValidateTokens(_, _, _, _, _)
ValidateTokens(v, n, tokens, indices, reported) ==
    IF Len(tokens) = 0
      THEN [indices |-> indices, reported |-> reported,
            value_error |-> FALSE, stopped |-> FALSE]
    ELSE LET num == Head(tokens)
             p   == ParseInt(num)
         IN IF ~p.ok
              THEN [indices |-> indices, reported |-> reported,
                    value_error |-> TRUE, stopped |-> FALSE]
            ELSE IF 0 <= p.val - 1 /\ p.val - 1 < n
              THEN ValidateTokens(v, n, Tail(tokens), Append(indices, p.val - 1), reported)
            ELSE IF v = "tui"
              THEN [indices |-> indices, reported |-> Append(reported, num),
                    value_error |-> FALSE, stopped |-> TRUE]
            ELSE ValidateTokens(v, n, Tail(tokens), indices, Append(reported, num))

\* the removal loop: pop each index from both lists; index_error: a pop raised
RECURSIVE PopLoop(_, _, _, _)
PopLoop(sel, urls, indices, removed) ==
    IF Len(indices) = 0
      THEN [albums |-> sel, urls |-> urls, removed |-> removed, index_error |-> FALSE]
    ELSE LET idx == Head(indices)
         IN IF idx >= Len(sel)
              THEN [albums |-> sel, urls |-> urls, removed |-> removed, index_error |-> TRUE]
            ELSE IF idx >= Len(urls)
              THEN [albums |-> PopAt(sel, idx), urls |-> urls,
                    removed |-> removed, index_error |-> TRUE]
            ELSE PopLoop(PopAt(sel, idx), PopAt(urls, idx), Tail(indices), removed + 1)

\* the command 'remove <tokens>': the lists after it, the tokens it reported
\* invalid, how many records it removed, and whether it printed 'Invalid format'
RemoveAlbums(v, sel, urls, tokens) ==
    LET val == ValidateTokens(v, Len(sel), tokens, <<>>, <<>>)
    IN IF val.value_error \/ val.stopped
         THEN [albums |-> sel, urls |-> urls, reported |-> val.reported,
               removed |-> 0, format_error |-> val.value_error]
       ELSE LET r == PopLoop(sel, urls, SortedReverse(val.indices), 0)
            IN [albums |-> r.albums, urls |-> r.urls, reported |-> val.reported,
                removed |-> r.removed, format_error |-> r.index_error]

\* the command 'clear': the menu clears at once, the tui asks to confirm first
ClearAlbums(v, sel, urls, confirmed) ==
    IF v = "menu" \/ confirmed
      THEN [albums |-> <<>>, urls |-> <<>>]
      ELSE [albums |-> sel, urls |-> urls]

(***************************************************************************)
(* Links files: load_existing_file and the two ways a file is written.     *)
(***************************************************************************)
\* position of the first character of s at or after i that is in cs, 0 when none
RECURSIVE FindAny(_, _, _)
FindAny(s, cs, i) ==
    IF i > Len(s) THEN 0
    ELSE IF Chr(s, i) \in cs THEN i
    ELSE FindAny(s, cs, i + 1)

HasChar(s, c) == FindAny(s, {c}, 1) # 0

\* the network location urlparse splits off: what follows '<scheme>://' up to
\* the next '/', '?' or '#'; "" when the text has no such part
UrlNetloc(url) ==
    LET colon  == FindAny(url, {":"}, 1)
        scheme == colon > 1 /\ \A i \in 1..(colon - 1) :
                      IsAlnum(Chr(url, i)) \/ Chr(url, i) \in {"+", "-", "."}
        rest   == IF scheme THEN SubSeq(url, colon + 1, Len(url)) ELSE url
    IN IF ~StartsWith(rest, "//") THEN ""
       ELSE LET stop == FindAny(rest, {"/", "?", "#"}, 3)
            IN SubSeq(rest, 3, IF stop = 0 THEN Len(rest) ELSE stop - 1)

\* urlparse(line) raises ValueError ('Invalid IPv6 URL') when the network
\* location has one square bracket without the other
UrlparseRaises(url) ==
    LET netloc == UrlNetloc(url)
    IN HasChar(netloc, "[") # HasChar(netloc, "]")

\* a membership test that never finds the line: the load loop without its
\* 'line not in self.album_urls' test
InSeqNever(seq, x) == FALSE

\* 'line not in self.album_urls' is ~InSeq(album_urls, line)
InSeq(seq, x) == \E i \in 1..Len(seq) : seq[i] = x

\* the load loop without the test for the 'http' prefix
RECURSIVE LoadLinesAnyPrefix(_, _, _, _, _)
LoadLinesAnyPrefix(v, sel, urls, lines, loaded_count) ==
    IF Len(lines) = 0
      THEN [albums |-> sel, urls |-> urls, loaded_count |-> loaded_count]
    ELSE LET line == Strip(Head(lines))
         IN IF line # "" /\ ~StartsWith(line, "#") /\ ~InSeq(urls, line)
              THEN LoadLinesAnyPrefix(v, Append(sel, LoadedRecord(line)),
                                      Append(urls, line), Tail(lines), loaded_count + 1)
            ELSE LoadLinesAnyPrefix(v, sel, urls, Tail(lines), loaded_count)

\* the loop of load_existing_file over the lines read
RECURSIVE LoadLines(_, _, _, _, _)
LoadLines(v, sel, urls, lines, loaded_count) ==
    IF Len(lines) = 0
      THEN [albums |-> sel, urls |-> urls, loaded_count |-> loaded_count]
    ELSE LET line == Strip(Head(lines))
         IN IF line # "" /\ ~StartsWith(line, "#") /\ StartsWith(line, "http")
                 /\ ~InSeq(urls, line)
              THEN IF v = "menu" /\ UrlparseRaises(line)
                     THEN LoadLines(v, sel, Append(urls, line), Tail(lines), loaded_count)
                     ELSE LoadLines(v, Append(sel, LoadedRecord(line)), Append(urls, line),
                                    Tail(lines), loaded_count + 1)
            ELSE LoadLines(v, sel, urls, Tail(lines), loaded_count)

\* load_existing_file once the file is open: read its lines and run the loop
LoadText(v, sel, urls, text) == LoadLines(v, sel, urls, ReadLines(text), 0)

\* the URLs with a line break between them and none after the last
RECURSIVE WriteUrlsJoined(_)
WriteUrlsJoined(urls) ==
    IF Len(urls) = 0 THEN ""
    ELSE IF Len(urls) = 1 THEN Head(urls)
    ELSE Head(urls) \o "\n" \o WriteUrlsJoined(Tail(urls))

\* what the loop 'for url in album_urls: f.write(f"{url}\n")' writes
RECURSIVE WriteUrls(_)
WriteUrls(urls) ==
    IF Len(urls) = 0 THEN "" ELSE Head(urls) \o "\n" \o WriteUrls(Tail(urls))

EndsWith(s, suffix) ==
    Len(s) >= Len(suffix) /\ SubSeq(s, Len(s) - Len(suffix) + 1, Len(s)) = suffix

\* the file name the save prompts end with: default when empty, '.txt' appended
SaveName(typed) ==
    LET name == IF Strip(typed) = "" THEN "album_links.txt" ELSE Strip(typed)
    IN IF EndsWith(name, ".txt") THEN name ELSE name \o ".txt"

NoFile == [exists |-> FALSE, text |-> ""]

FileOf(text) == [exists |-> TRUE, text |-> text]

\* os.path.exists(filename)
Exists(files, filename) == filename \in DOMAIN files /\ files[filename].exists

\* open(filename, 'w') and the write loop; io_error: open raised, nothing written
WriteFile(files, filename, urls, io_error) ==
    IF io_error THEN files
    ELSE [f \in DOMAIN files \cup {filename} |->
            IF f = filename THEN FileOf(WriteUrls(urls)) ELSE files[f]]

\* save_workflow: the file system after it, and whether it wrote the file
\*   typed: the file name typed; overwrite: the answer to 'Overwrite?'
SaveWorkflowResult(v, urls, files, typed, overwrite, io_error) ==
    LET filename == SaveName(typed)
    IN IF Len(urls) = 0 THEN [fs |-> files, saved |-> FALSE, file |-> filename]
       ELSE IF Exists(files, filename) /\ ~overwrite
         THEN [fs |-> files, saved |-> FALSE, file |-> filename]
       ELSE [fs |-> WriteFile(files, filename, urls, io_error),
             saved |-> ~io_error, file |-> filename]

\* quit_application: the save it offers before the process exits
\*   menu: save_to_file(filename), which writes nothing for an empty URL list
\*   tui:  writes the file itself
QuitResult(v, sel, urls, files, save, typed, io_error) ==
    LET filename == SaveName(typed)
    IN IF Len(sel) = 0 \/ ~save THEN [fs |-> files, saved |-> FALSE, file |-> filename]
       ELSE IF v = "menu" /\ Len(urls) = 0
         THEN [fs |-> files, saved |-> FALSE, file |-> filename]
       ELSE [fs |-> WriteFile(files, filename, urls, io_error),
             saved |-> ~io_error, file |-> filename]

(***************************************************************************)
(* The inputs the selectors are driven with.                               *)
(***************************************************************************)
AlbumAttrs == {"name", "artist", "release_year"}

\* the albums get_artist_albums returns for the artist searched: AlbumInfo
\* objects, each with the album_id the selector stored in it
Catalog ==
    <<Album(AlbumAttrs \cup {"album_id"}, "Blue", "X", "2020", "111", "", "", ""),
      Album(AlbumAttrs \cup {"album_id"}, "Red", "X", "2021", "222", "", "", "")>>

\* what display_albums returns: the albums picked, in the order typed
AlbumPicks ==
    {<<>>} \cup {<<Catalog[i]>> : i \in 1..2}
           \cup {<<Catalog[i], Catalog[j]>> : i, j \in 1..2}

\* the module select_module returned
AvailableModules == {"qobuz"}

\* the words typed after 'remove'
Tokens == {IntToStr(i) : i \in 0..MaxSel} \cup {"x"}

\* the token lists of the 'remove ...' commands: every list of one or two
\* tokens, and some of three
RemoveCmds ==
    {<<a>> : a \in Tokens} \cup {<<a, b>> : a, b \in Tokens}
        \cup {<<"3", "1", "2">>, <<"1", "3", "2">>, <<"2", "0", "1">>,
              <<"1", "x", "2">>, <<"2", "1", "2">>}

\* the lines a links file is made of (without the line break)
LineSet ==
    {"https://play.qobuz.com/album/111", "  http://x.io/2  ", "# a comment",
     "", "ftp://x.io/3", "http://["}

\* the lines joined into the text of a file, each followed by a line break
RECURSIVE JoinLines(_)
JoinLines(lines) ==
    IF Len(lines) = 0 THEN "" ELSE Head(lines) \o "\n" \o JoinLines(Tail(lines))

\* the line lists of the links files: every file of up to two lines, and one of four
LinkFileLines ==
    {<<>>} \cup {<<a>> : a \in LineSet} \cup {<<a, b>> : a, b \in LineSet}
        \cup {<<"  http://x.io/2  ", "", "ftp://x.io/3", "http://x.io/2">>}

\* the links files on disk when the selector starts
LinksFiles ==
    [f \in {"album_links.txt", "bad.txt", "none.txt"} |->
        CASE f = "album_links.txt" ->
               FileOf("https://play.qobuz.com/album/111\n# a comment\n")
          [] f = "bad.txt" -> FileOf("http://[\n")
          [] OTHER -> NoFile]

\* the file names typed at the load prompt
LoadNames == DOMAIN LinksFiles \cup {""}

\* the album records generate_album_url is called with: with an identifier in
\* album_id, id, albumId or albumID, with an empty id beside an albumId, with
\* none, with a name of special
\* characters, and objects that lack name, artist or release_year
UrlAlbums ==
    {Catalog[1],
     Album(AlbumAttrs, "Blue", "X", "2020", "", "", "", ""),
     Album(AlbumAttrs \cup {"album_id"}, "Blue", "X", "2020", "", "", "", ""),
     Album(AlbumAttrs, "AC/DC: Live!", "AC/DC", "1992", "", "", "", ""),
     Album(AlbumAttrs \cup {"id"}, "Blue", "X", "2020", "", "77", "", ""),
     Album(AlbumAttrs \cup {"albumId"}, "Blue", "X", "2020", "", "", "88", ""),
     Album(AlbumAttrs \cup {"albumID"}, "Blue", "X", "2020", "", "", "", "99"),
     Album(AlbumAttrs \cup {"id", "albumId"}, "Blue", "X", "2020", "", "", "555", ""),
     Album({"artist", "release_year", "album_id"}, "", "X", "2020", "111", "", "", ""),
     Album({"name", "release_year"}, "Blue", "", "2020", "", "", "", ""),
     Album({"name", "artist", "id"}, "Blue", "X", "", "", "", "", "")}

\* the strings generate_album_url may hash
HashKeys == {"Blue_X_2020", "AC/DC: Live!_AC/DC_1992"}

\* the hash functions a process may get
HashFns == [HashKeys -> HashValues]

DefaultHash == [k \in HashKeys |-> "8214571979341372109"]

(***************************************************************************)
(* The selector process.                                                   *)
(***************************************************************************)
\* what the last operation was and what it printed
\*   count: the number of records it reported as added, removed, loaded or saved
\*   file: the file it read or wrote; again: a load of the file the operation
\*   before it had loaded
Last(op, count, file, again) == [op |-> op, count |-> count, file |-> file, again |-> again]

\* the record of the last call of generate_album_url
\*   raised, url: its outcome; stale: the process was restarted since
\*   before: what the call before it returned, when that call had the same
\*   service and the same name, artist and year, and neither found an
\*   identifier ("" otherwise); across: a restart lay between the two calls
NoCall == [called |-> FALSE, module |-> "", album |-> Catalog[1],
           raised |-> FALSE, url |-> "", stale |-> FALSE,
           before |-> "", across |-> FALSE]

NoSync == [pc |-> "idle"]

NoFormat == [called |-> FALSE]

NoProbe == [pc |-> "idle"]

NoSearch == [pc |-> "idle"]

\* __init__: both lists empty
Init ==
    /\ ui \in Selectors
    /\ selected_albums = <<>>
    /\ album_urls = <<>>
    /\ last = Last("init", 0, "", FALSE)
    /\ fs = LinksFiles
    /\ pyhash = DefaultHash
    /\ gen = NoCall
    /\ sync = NoSync
    /\ fmt = NoFormat
    /\ probe = NoProbe
    /\ search = NoSearch

Running == last.op \notin {"quit", "crash"}

\* search_workflow reaching add_selected_albums(module_name, albums, artist_name)
AddSelectedAlbums(module_name, albums, artist_name) ==
    /\ Running
    /\ Len(selected_albums) + Len(albums) <= MaxSel
    /\ Len(album_urls) + Len(albums) <= MaxSel
    /\ LET r == AddSelected(ui, selected_albums, album_urls, module_name, albums, artist_name)
       IN /\ selected_albums' = r.albums
          /\ album_urls' = r.urls
          /\ last' = IF Len(albums) = 0 THEN last
                      ELSE Last(IF r.raised THEN "crash" ELSE "add",
                                Len(r.albums) - Len(selected_albums), "", FALSE)
    /\ UNCHANGED <<ui, fs, pyhash, gen, sync, fmt, probe, search>>

\* show_selected_albums with the command 'remove <tokens>'
RemoveCommand(tokens) ==
    /\ Running
    /\ Len(selected_albums) > 0
    /\ LET r == RemoveAlbums(ui, selected_albums, album_urls, tokens)
       IN /\ selected_albums' = r.albums
          /\ album_urls' = r.urls
          /\ last' = Last("remove", r.removed, "", FALSE)
    /\ UNCHANGED <<ui, fs, pyhash, gen, sync, fmt, probe, search>>

\* show_selected_albums with the command 'clear'
ClearCommand(confirmed) ==
    /\ Running
    /\ Len(selected_albums) > 0
    /\ LET r == ClearAlbums(ui, selected_albums, album_urls, confirmed)
       IN /\ selected_albums' = r.albums
          /\ album_urls' = r.urls
          /\ last' = Last("clear", 0, "", FALSE)
    /\ UNCHANGED <<ui, fs, pyhash, gen, sync, fmt, probe, search>>

\* load_existing_file with the file name typed; io_error: reading the file raised
LoadExistingFile(filename, io_error) ==
    /\ Running
    /\ IF filename = "" \/ ~Exists(fs, filename) \/ io_error
         THEN /\ UNCHANGED <<selected_albums, album_urls>>
              /\ last' = Last("load", 0, "", FALSE)
         ELSE LET r == LoadText(ui, selected_albums, album_urls, fs[filename].text)
              IN /\ Len(r.urls) <= MaxSel
                 /\ selected_albums' = r.albums
                 /\ album_urls' = r.urls
                 /\ last' = Last("load", r.loaded_count, filename,
                                  last.op = "load" /\ last.file = filename)
    /\ UNCHANGED <<ui, fs, pyhash, gen, sync, fmt, probe, search>>

\* the record has name, artist and release_year, and the probing finds no identifier
NoIdentifier(v, album) ==
    AlbumAttrs \subseteq album.attrs /\ ProbeAlbumId(v, album) = ""

\* a call generate_album_url(module_name, album), as add_selected_albums makes it
CallGenerate(module_name, album) ==
    /\ LET r == GenerateAlbumUrl(ui, module_name, album)
           same == /\ gen.called /\ ~gen.raised
                   /\ gen.module = module_name
                   /\ NoIdentifier(ui, gen.album) /\ NoIdentifier(ui, album)
                   /\ HashKey(gen.album) = HashKey(album)
       IN gen' = [called |-> TRUE, module |-> module_name, album |-> album,
                  raised |-> r.raised, url |-> r.url, stale |-> FALSE,
                  before |-> IF same /\ ~r.raised THEN gen.url ELSE "",
                  across |-> same /\ ~r.raised /\ gen.stale]
    /\ UNCHANGED <<ui, selected_albums, album_urls, last, fs, pyhash, sync, fmt, probe, search>>

\* the selector is started again: Python salts str hashes anew
Restart ==
    /\ gen.called /\ ~gen.stale
    /\ pyhash' \in HashFns
    /\ gen' = [gen EXCEPT !.stale = TRUE]
    /\ UNCHANGED <<ui, selected_albums, album_urls, last, fs, sync, fmt, probe, search>>

Next ==
    \/ \E m \in AvailableModules, albums \in AlbumPicks : AddSelectedAlbums(m, albums, "X")
    \/ \E tokens \in RemoveCmds : RemoveCommand(tokens)
    \/ \E confirmed \in BOOLEAN : ClearCommand(confirmed)
    \/ \E filename \in LoadNames, io_error \in BOOLEAN : LoadExistingFile(filename, io_error)

Spec == Init /\ [][Next]_vars

\* save_workflow with the file name typed and the answer to 'Overwrite?'
\* io_error: opening the file for writing raised
SaveWorkflow(typed, overwrite, io_error) ==
    /\ Running
    /\ LET r == SaveWorkflowResult(ui, album_urls, fs, typed, overwrite, io_error)
       IN /\ fs' = r.fs
          /\ last' = Last("save", IF r.saved THEN Len(album_urls) ELSE 0, r.file, FALSE)
    /\ UNCHANGED <<ui, selected_albums, album_urls, pyhash, gen, sync, fmt, probe, search>>

\* quit_application with the answer to 'Save before quitting?' and the file
\* name typed; the process exits
QuitApplication(save, typed, io_error) ==
    /\ Running
    /\ LET r == QuitResult(ui, selected_albums, album_urls, fs, save, typed, io_error)
       IN /\ fs' = r.fs
          /\ last' = Last("quit", IF r.saved THEN Len(album_urls) ELSE 0, r.file, FALSE)
    /\ UNCHANGED <<ui, selected_albums, album_urls, pyhash, gen, sync, fmt, probe, search>>

\* the selector is started again after it exited: __init__ empties both lists,
\* the files stay as they are
StartProcess ==
    /\ ~Running
    /\ selected_albums' = <<>>
    /\ album_urls' = <<>>
    /\ last' = Last("init", 0, "", FALSE)
    /\ UNCHANGED <<ui, fs, pyhash, gen, sync, fmt, probe, search>>

\* the file names typed at the save prompts, and at the load prompt after them
SaveNames == {"", "album_links"}

SavedNames == {SaveName(t) : t \in SaveNames}

\* the selectors with the files they write and read as part of the state
NextFile ==
    \/ \E m \in AvailableModules, albums \in AlbumPicks :
          AddSelectedAlbums(m, albums, "X") /\ Len(album_urls') <= MaxSaved
    \/ \E filename \in SavedNames, io_error \in BOOLEAN :
          LoadExistingFile(filename, io_error) /\ Len(album_urls') <= MaxSaved
    \/ \E typed \in SaveNames, overwrite, io_error \in BOOLEAN :
          SaveWorkflow(typed, overwrite, io_error)
    \/ \E save \in BOOLEAN, typed \in SaveNames, io_error \in BOOLEAN :
          QuitApplication(save, typed, io_error)
    \/ StartProcess

\* the selector started in a directory with or without an album_links.txt
InitFile ==
    /\ ui \in Selectors
    /\ selected_albums = <<>>
    /\ album_urls = <<>>
    /\ last = Last("init", 0, "", FALSE)
    /\ fs \in {LinksFiles, [LinksFiles EXCEPT !["album_links.txt"] = NoFile]}
    /\ pyhash = DefaultHash
    /\ gen = NoCall
    /\ sync = NoSync
    /\ fmt = NoFormat
    /\ probe = NoProbe
    /\ search = NoSearch

SpecFile == InitFile /\ [][NextFile]_vars

\* generate_album_url on its own: any module name, any album record, in a
\* process whose hash salt was drawn at its start
InitUrl ==
    /\ ui \in Selectors
    /\ selected_albums = <<>>
    /\ album_urls = <<>>
    /\ last = Last("init", 0, "", FALSE)
    /\ fs = LinksFiles
    /\ pyhash \in HashFns
    /\ gen = NoCall
    /\ sync = NoSync
    /\ fmt = NoFormat
    /\ probe = NoProbe
    /\ search = NoSearch

NextUrl ==
    \/ \E m \in ModuleNames, album \in UrlAlbums : CallGenerate(m, album)
    \/ Restart

SpecUrl == InitUrl /\ [][NextUrl]_vars

(***************************************************************************)
(* sync_music.py: one directory tree copied onto another.  A tree is a     *)
(* function from the relative paths to the file there: whether it exists,  *)
(* its modification time and its size.                                     *)
(***************************************************************************)
\* the relative paths, in the order os.walk lists them
Paths == <<"a.flac", "d/b.flac">>

PathSet == {Paths[i] : i \in 1..Len(Paths)}

Absent == [exists |-> FALSE, mtime |-> 0, size |-> 0]

FileRec(mtime, size) == [exists |-> TRUE, mtime |-> mtime, size |-> size]

\* the files a source path may hold, and the files a destination path may
\* hold: older than, as old as and newer than the source's, of its size or not
SrcFiles == {Absent, FileRec(2, 1)}

DestFiles == {Absent} \cup {FileRec(t, sz) : t \in {1, 2, 3}, sz \in {1, 2}}

\* os.path.dirname of a relative path: "" is the root itself
DirOf(path) == IF path = "d/b.flac" THEN "d" ELSE ""

\* the directories under the destination root a tree of files needs
DirsOf(tree) == {DirOf(p) : p \in {q \in PathSet : tree[q].exists}} \ {""}

\* get_all_files(directory)
GetAllFiles(tree) == SelectSeq(Paths, LAMBDA p : tree[p].exists)

\* the decision that looks at the modification times only
ShouldCopyIfOlder(src_file, dest_file) ==
    IF dest_file.exists THEN dest_file.mtime < src_file.mtime ELSE TRUE

\* the decision with 'dest_mtime > src_mtime' in place of '>='
ShouldCopyUnlessNewer(src_file, dest_file) ==
    IF dest_file.exists
      THEN ~(dest_file.mtime > src_file.mtime /\ src_file.size = dest_file.size)
      ELSE TRUE

\* should_copy of copy_file_with_structure
ShouldCopy(src_file, dest_file) ==
    IF dest_file.exists
      THEN ~(dest_file.mtime >= src_file.mtime /\ src_file.size = dest_file.size)
      ELSE TRUE

\* copy_file_with_structure that copies and creates directories in a dry run too
CopyFileAlways(src, dest, dirs, path, dry_run) ==
    [was_copied |-> ShouldCopy(src[path], dest[path]),
     dirs |-> dirs \cup ({DirOf(path)} \ {""}),
     dest |-> IF ShouldCopy(src[path], dest[path])
                THEN [dest EXCEPT ![path] = src[path]] ELSE dest]

\* copy_file_with_structure(src_file, src_base, dest_base, dry_run): what it
\* returns and the destination tree after it; shutil.copy2 copies the
\* content and the modification time
\*   dirs: the directories under the destination root; os.makedirs creates
\*   the file's directory unless dry_run
CopyFileWithStructure(src, dest, dirs, path, dry_run) ==
    LET should_copy == ShouldCopy(src[path], dest[path])
    IN [was_copied |-> should_copy,
        dirs |-> IF dry_run THEN dirs ELSE dirs \cup ({DirOf(path)} \ {""}),
        dest |-> IF should_copy /\ ~dry_run
                   THEN [dest EXCEPT ![path] = src[path]] ELSE dest]

\* the loop that removes the destination files without a source counterpart
DeleteExtra(src, dest) ==
    [dest |-> [p \in PathSet |->
                 IF dest[p].exists /\ ~src[p].exists THEN Absent ELSE dest[p]],
     deleted_files |-> Cardinality({p \in PathSet : dest[p].exists /\ ~src[p].exists})]

NoDecision == [made |-> FALSE, path |-> "", was_copied |-> FALSE,
               src_file |-> Absent, dest_before |-> Absent]

\* a syncer before sync_music is called, with the two trees as they are
\*   before: the destination as the run found it (history)
\*   asked: 'Proceed with sync?' was asked; raised: what sync_music raised
\*   exit_code: what main passed to sys.exit, -1 while it runs
\*   prior: whether the run before this one was a confirmed run, not a dry
\*   run, that returned True, and its delete_extra (history)
IdleSync(source_exists, dest_exists, src, dest, dirs) ==
    [pc |-> "idle", source_exists |-> source_exists, dest_exists |-> dest_exists,
     src |-> src, dest |-> dest, dirs |-> dirs,
     before |-> [dest_exists |-> dest_exists, dest |-> dest, dirs |-> dirs],
     dry_run |-> FALSE, delete_extra |-> FALSE, asked |-> FALSE,
     todo |-> <<>>, copied_files |-> 0, skipped_files |-> 0, deleted_files |-> 0,
     decision |-> NoDecision, result |-> FALSE, raised |-> "none", exit_code |-> -1,
     prior |-> [completed |-> FALSE, delete_extra |-> FALSE]]

\* an exit code that takes an interrupt for a success
ExitCodeZeroOnInterrupt(success, raised) ==
    IF raised = "KeyboardInterrupt" \/ (raised = "none" /\ success) THEN 0 ELSE 1

\* main after sync_music: sys.exit(0 if success else 1), and sys.exit(1) in
\* both except clauses
ExitCode(success, raised) == IF raised = "none" /\ success THEN 0 ELSE 1

\* sync_music ended in state st, returning success or raising; main exits
Exited(st, success, raised) ==
    [st EXCEPT !.pc = "exited", !.result = success, !.raised = raised,
               !.exit_code = ExitCode(success, raised)]

\* a directory that does not exist has no files
InitSync ==
    /\ ui = "menu"
    /\ selected_albums = <<>>
    /\ album_urls = <<>>
    /\ last = Last("init", 0, "", FALSE)
    /\ fs = LinksFiles
    /\ pyhash = DefaultHash
    /\ gen = NoCall
    /\ fmt = NoFormat
    /\ probe = NoProbe
    /\ search = NoSearch
    /\ \E se, de \in BOOLEAN, src \in [PathSet -> SrcFiles],
          dest \in [PathSet -> DestFiles], dirs \in SUBSET {"d"} :
          /\ se \/ \A p \in PathSet : ~src[p].exists
          /\ de \/ (dirs = {} /\ \A p \in PathSet : ~dest[p].exists)
          /\ DirsOf(dest) \subseteq dirs
          /\ sync = IdleSync(se, de, src, dest, dirs)

\* sync_music up to its copy loop: validate, scan, confirm
\*   answer: what the user does at 'Proceed with sync?': "yes", "no", or
\*   "interrupt" (Ctrl-C, KeyboardInterrupt)
StartSync(dry_run, delete_extra, answer) ==
    /\ sync.pc = "idle"
    /\ LET source_files == GetAllFiles(sync.src)
           s0 == [sync EXCEPT !.dry_run = dry_run, !.delete_extra = delete_extra]
       IN sync' =
            IF ~sync.source_exists
              THEN Exited(s0, FALSE, "none")
            ELSE LET s1 == [s0 EXCEPT !.dest_exists = sync.dest_exists \/ ~dry_run]
                     s2 == [s1 EXCEPT !.asked = TRUE]
                 IN IF Len(source_files) = 0
                      THEN Exited(s1, TRUE, "none")
                    ELSE IF dry_run
                      THEN [s1 EXCEPT !.pc = "copying", !.todo = source_files]
                    ELSE IF answer = "interrupt"
                      THEN Exited(s2, FALSE, "KeyboardInterrupt")
                    ELSE IF answer = "no"
                      THEN Exited(s2, FALSE, "none")
                    ELSE [s2 EXCEPT !.pc = "copying", !.todo = source_files]
    /\ UNCHANGED <<ui, selected_albums, album_urls, last, fs, pyhash, gen, fmt, probe, search>>

\* one turn of the copy loop: copy_file_with_structure and the counters
\*   io_error: os.makedirs or shutil.copy2 raises (OSError), when it is called
CopyNext(io_error) ==
    /\ sync.pc = "copying" /\ Len(sync.todo) > 0
    /\ LET path == Head(sync.todo)
           r == CopyFileWithStructure(sync.src, sync.dest, sync.dirs, path, sync.dry_run)
       IN sync' =
            IF io_error /\ ~sync.dry_run
              THEN Exited(sync, FALSE, "Exception")
            ELSE [sync EXCEPT
                     !.dest = r.dest,
                     !.dirs = r.dirs,
                     !.todo = Tail(sync.todo),
                     !.copied_files = IF r.was_copied THEN @ + 1 ELSE @,
                     !.skipped_files = IF r.was_copied THEN @ ELSE @ + 1,
                     !.decision = [made |-> TRUE, path |-> path,
                                   was_copied |-> r.was_copied,
                                   src_file |-> sync.src[path],
                                   dest_before |-> sync.dest[path]]]
    /\ UNCHANGED <<ui, selected_albums, album_urls, last, fs, pyhash, gen, fmt, probe, search>>

\* the user presses Ctrl-C during the copy loop: main catches
\* KeyboardInterrupt and exits
Interrupt ==
    /\ sync.pc = "copying"
    /\ sync' = Exited(sync, FALSE, "KeyboardInterrupt")
    /\ UNCHANGED <<ui, selected_albums, album_urls, last, fs, pyhash, gen, fmt, probe, search>>

\* sync_music after its copy loop: delete the extra files when asked to and
\* not a dry run, show the results, return True
FinishSync ==
    /\ sync.pc = "copying" /\ Len(sync.todo) = 0
    /\ LET d == DeleteExtra(sync.src, sync.dest)
       IN sync' = IF sync.delete_extra /\ ~sync.dry_run
                    THEN Exited([sync EXCEPT !.dest = d.dest,
                                             !.deleted_files = d.deleted_files],
                                TRUE, "none")
                    ELSE Exited(sync, TRUE, "none")
    /\ UNCHANGED <<ui, selected_albums, album_urls, last, fs, pyhash, gen, fmt, probe, search>>

\* the script is run again on the trees the run before it left
SyncAgain ==
    /\ sync.pc = "exited"
    /\ sync' = [IdleSync(sync.source_exists, sync.dest_exists, sync.src, sync.dest,
                         sync.dirs)
                  EXCEPT !.prior = [completed |-> sync.result /\ sync.asked /\ ~sync.dry_run,
                                    delete_extra |-> sync.delete_extra]]
    /\ UNCHANGED <<ui, selected_albums, album_urls, last, fs, pyhash, gen, fmt, probe, search>>

NextSync ==
    \/ \E dry_run, delete_extra \in BOOLEAN, answer \in {"yes", "no", "interrupt"} :
          StartSync(dry_run, delete_extra, answer)
    \/ \E io_error \in BOOLEAN : CopyNext(io_error)
    \/ Interrupt
    \/ FinishSync
    \/ SyncAgain

SpecSync == InitSync /\ [][NextSync]_vars

(***************************************************************************)
(* format_size.  A byte count is m * 1024^e; the size the loop divides is  *)
(* m * 1024^e / 1024^j, with e = 0 or j = 0.  For these counts the float   *)
(* divisions by 1024.0 are exact, and f"{x:.1f}" rounds the exact value to *)
(* tenths, a tie to the even digit.                                        *)
(***************************************************************************)
Units == <<"B", "KB", "MB", "GB", "TB">>

RECURSIVE Pow1024(_)
Pow1024(k) == IF k = 0 THEN 1 ELSE 1024 * Pow1024(k - 1)

Bytes(m, e) == [m |-> m, e |-> e, j |-> 0]

\* size_bytes /= 1024.0
Div1024(sz) == IF sz.e > 0 THEN [sz EXCEPT !.e = @ - 1] ELSE [sz EXCEPT !.j = @ + 1]

\* size_bytes < 1024.0
Below1024(sz) ==
    IF sz.m = 0 THEN TRUE
    ELSE IF sz.e > 0 THEN FALSE
    ELSE sz.j >= 3 \/ sz.m < Pow1024(sz.j + 1)

\* the size in tenths, as f"{size_bytes:.1f}" rounds it
Tenths(sz) ==
    IF sz.e > 0 \/ sz.j = 0 THEN 10 * sz.m * Pow1024(sz.e)
    ELSE LET d == Pow1024(sz.j)
             t == (10 * sz.m) \div d
             r == (10 * sz.m) % d
         IN IF 2 * r > d \/ (2 * r = d /\ t % 2 = 1) THEN t + 1 ELSE t

\* f"{size_bytes:.1f} {unit}"
Formatted(sz, unit) ==
    [text |-> NatToStr(Tenths(sz) \div 10) \o "." \o NatToStr(Tenths(sz) % 10)
                \o " " \o unit,
     unit |-> unit, tenths |-> Tenths(sz), size |-> sz]

\* the loop of format_size from the k-th unit on, and the 'PB' after it
RECURSIVE FormatLoop(_, _)
FormatLoop(sz, k) ==
    IF k > Len(Units) THEN Formatted(sz, "PB")
    ELSE IF Below1024(sz) THEN Formatted(sz, Units[k])
    ELSE FormatLoop(Div1024(sz), k + 1)

\* format_size(size_bytes)
FormatSize(bytes) == FormatLoop(bytes, 1)

\* the byte counts format_size is called with: around the unit borders,
\* rounding ties, and multiples of the powers of 1024 up to 1024^6
SizeInputs ==
    {Bytes(m, e) : m \in {1, 2, 10, 100, 512, 999, 1000, 1023, 1024, 1025, 1075,
                          1280, 1535, 1536, 2047}, e \in 0..6}
      \cup {Bytes(m, 0) : m \in {0, 1048524, 1048525, 1048575, 1048576, 1572864,
                                 104857600, 214748364}}

\* a call format_size(bytes), as sync_music makes it for the source size
FormatCall(bytes) ==
    /\ fmt' = [called |-> TRUE, bytes |-> bytes, out |-> FormatSize(bytes)]
    /\ UNCHANGED <<ui, selected_albums, album_urls, last, fs, pyhash, gen, sync, probe, search>>

NextSize == \E bytes \in SizeInputs : FormatCall(bytes)

InitSize ==
    /\ ui = "menu"
    /\ selected_albums = <<>>
    /\ album_urls = <<>>
    /\ last = Last("init", 0, "", FALSE)
    /\ fs = LinksFiles
    /\ pyhash = DefaultHash
    /\ gen = NoCall
    /\ sync = NoSync
    /\ fmt = NoFormat
    /\ probe = NoProbe
    /\ search = NoSearch

SpecSize == InitSize /\ [][NextSize]_vars

(***************************************************************************)
(* search_workflow: search_artists, get_artist_albums and the adding of    *)
(* the albums picked.  The collaborator (the service module) answers or    *)
(* raises; which of the two is an input of the step.                       *)
(***************************************************************************)
\* the artists module.search finds: SearchResult objects; albums are the
\* album ids get_artist_info lists for the artist
Artists ==
    <<[name |-> "X", result_id |-> "ax", albums |-> <<"111", "222">>],
      [name |-> "Y", result_id |-> "ay", albums |-> <<>>]>>

\* what module.search returns for the queries typed
Found == {<<>>, Artists}

\* the AlbumInfo module.get_album_info returns for an id, with the id stored
\* in it as album_id
AlbumInfoWithId(album_id) ==
    IF album_id = "111" THEN Catalog[1] ELSE Catalog[2]

\* how a call of the service module ends: with its result, or raising in
\* load_module or in the call itself
CallOutcomes == {"ok", "load_module raises", "call raises"}

\* search_artists(module_name, query): the results, [] when anything raised
SearchArtists(outcome, found) == IF outcome = "ok" THEN found ELSE <<>>

\* albums of the artist only when every lookup succeeded
AlbumsAllOrNothing(ids, failing) ==
    IF \E i \in 1..Len(ids) : ids[i] \in failing THEN <<>>
    ELSE [i \in 1..Len(ids) |-> AlbumInfoWithId(ids[i])]

\* the loop of get_artist_albums: an id whose get_album_info raises is
\* skipped with a warning
RECURSIVE AlbumsLoop(_, _)
AlbumsLoop(ids, failing) ==
    IF Len(ids) = 0 THEN <<>>
    ELSE IF Head(ids) \in failing THEN AlbumsLoop(Tail(ids), failing)
    ELSE <<AlbumInfoWithId(Head(ids))>> \o AlbumsLoop(Tail(ids), failing)

\* get_artist_albums(module_name, artist_id): outcome is that of load_module
\* and get_artist_info, failing the ids for which get_album_info raises
GetArtistAlbums(outcome, ids, failing) ==
    IF outcome = "ok" THEN AlbumsLoop(ids, failing) ELSE <<>>

\* search_workflow at its prompt
\*   step: the call made last; outcome, ids, failing: its inputs;
\*   before: the two lists when it was made (history)
AtPrompt(step, outcome, ids, failing, before) ==
    [pc |-> "prompt", results |-> <<>>, artist |-> "", albums |-> <<>>,
     step |-> step, outcome |-> outcome, ids |-> ids, failing |-> failing,
     before |-> before]

InitSearch ==
    /\ ui \in Selectors
    /\ selected_albums = <<>>
    /\ album_urls = <<>>
    /\ last = Last("init", 0, "", FALSE)
    /\ fs = LinksFiles
    /\ pyhash = DefaultHash
    /\ gen = NoCall
    /\ sync = NoSync
    /\ fmt = NoFormat
    /\ probe = NoProbe
    /\ search = AtPrompt("init", "ok", <<>>, {}, <<selected_albums, album_urls>>)

\* a query typed at the prompt: search_artists and display_search_results,
\* which returns None for an empty result, so that the loop asks again
SearchQuery(outcome, found) ==
    /\ search.pc = "prompt"
    /\ LET results == SearchArtists(outcome, found)
           at == AtPrompt("search", outcome, <<>>, {}, <<selected_albums, album_urls>>)
       IN search' = IF Len(results) = 0 THEN at
                     ELSE [at EXCEPT !.pc = "results", !.results = results]
    /\ UNCHANGED <<ui, selected_albums, album_urls, last, fs, pyhash, gen, sync, fmt, probe>>

\* 'search again' chosen in the list of results
SearchAgain ==
    /\ search.pc = "results"
    /\ search' = AtPrompt("again", "ok", <<>>, {}, <<selected_albums, album_urls>>)
    /\ UNCHANGED <<ui, selected_albums, album_urls, last, fs, pyhash, gen, sync, fmt, probe>>

\* an artist chosen in the list of results: get_artist_albums; without
\* albums the loop asks for the next query
ChooseArtist(i, outcome, failing) ==
    /\ search.pc = "results"
    /\ i \in 1..Len(search.results)
    /\ LET ids == search.results[i].albums
           albums == GetArtistAlbums(outcome, ids, failing)
           at == AtPrompt("albums", outcome, ids, failing, <<selected_albums, album_urls>>)
       IN search' = IF Len(albums) = 0 THEN at
                     ELSE [at EXCEPT !.pc = "albums", !.albums = albums,
                                     !.artist = search.results[i].name]
    /\ UNCHANGED <<ui, selected_albums, album_urls, last, fs, pyhash, gen, sync, fmt, probe>>

\* the subsequences of a list of at most two albums, and its reversal
Picks(albums) ==
    {<<>>, albums} \cup {<<albums[i]>> : i \in 1..Len(albums)}
        \cup {<<albums[j], albums[i]>> : i, j \in 1..Len(albums)}

\* albums picked in display_albums (none for 'back') and added
PickAlbums(picks) ==
    /\ search.pc = "albums"
    /\ picks \in Picks(search.albums)
    /\ Len(selected_albums) + Len(picks) <= MaxSel
    /\ LET r == AddSelected(ui, selected_albums, album_urls, "qobuz", picks, search.artist)
       IN /\ selected_albums' = r.albums
          /\ album_urls' = r.urls
    /\ search' = AtPrompt("add", "ok", <<>>, {}, <<selected_albums, album_urls>>)
    /\ UNCHANGED <<ui, last, fs, pyhash, gen, sync, fmt, probe>>

NextSearch ==
    \/ \E outcome \in CallOutcomes, found \in Found : SearchQuery(outcome, found)
    \/ SearchAgain
    \/ \E i \in 1..2, outcome \in CallOutcomes, failing \in SUBSET {"111", "222"} :
          ChooseArtist(i, outcome, failing)
    \/ \E picks \in AlbumPicks : PickAlbums(picks)

SpecSearch == InitSearch /\ [][NextSearch]_vars

(***************************************************************************)
(* scripts/test_qobuz_login.py: the login probe.  A JSON value of the      *)
(* settings is absent (no such key), null, or a string.                    *)
(***************************************************************************)
JAbsent == [kind |-> "absent", s |-> ""]

JNull == [kind |-> "null", s |-> ""]

JStr(s) == [kind |-> "str", s |-> s]

\* Python's truth value of what dict.get returns for the JSON value
Truthy(v) == v.kind = "str" /\ v.s # ""

\* the keys of the credentials dict, in its order, and the settings key each
\* is read from
CredKeys == <<"app_id", "app_secret", "email", "password">>

SettingsKey(k) == IF k = "email" THEN "username" ELSE k

Placeholder(k) ==
    CASE k = "app_id"     -> "YOUR_APP_ID"
      [] k = "app_secret" -> "YOUR_APP_SECRET"
      [] k = "email"      -> "YOUR_QOBUZ_EMAIL"
      [] k = "password"   -> "YOUR_QOBUZ_PASSWORD"

\* credentials = {"app_id": qobuz_settings.get('app_id'), ...}
Credentials(qobuz_settings) ==
    [k \in {CredKeys[i] : i \in 1..Len(CredKeys)} |-> qobuz_settings[SettingsKey(k)]]

\* the first key without a value, alone
FirstMissingKey(credentials) ==
    LET all == SelectSeq(CredKeys, LAMBDA k : ~Truthy(credentials[k]))
    IN IF Len(all) = 0 THEN <<>> ELSE <<Head(all)>>

\* missing = [k for k, v in credentials.items() if not v]
MissingKeys(credentials) == SelectSeq(CredKeys, LAMBDA k : ~Truthy(credentials[k]))

\* ', '.join(names)
RECURSIVE JoinComma(_)
JoinComma(names) ==
    IF Len(names) = 0 THEN ""
    ELSE IF Len(names) = 1 THEN Head(names)
    ELSE Head(names) \o ", " \o JoinComma(Tail(names))

\* a placeholder test that never finds one
HoldsPlaceholderNever(credentials) == FALSE

\* the test 'credentials["app_id"] == "YOUR_APP_ID" or ...'
HoldsPlaceholder(credentials) ==
    \E i \in 1..Len(CredKeys) :
        credentials[CredKeys[i]] = JStr(Placeholder(CredKeys[i]))

\* the settings path, as the messages print it
SettingsPath == "config/settings.json"

\* load_credentials_from_settings(): the credentials dict or None, and the
\* message printed
\*   settings.file: "absent" (FileNotFoundError), "unparsable"
\*   (JSONDecodeError), "unreadable" (another exception), "no_qobuz" (no
\*   modules.qobuz entry, or an empty one), "qobuz"
LoadCredentialsFromSettings(settings) ==
    LET none(text, named) == [ok |-> FALSE, credentials |-> Credentials(settings.qobuz),
                              message |-> text, named |-> named]
        credentials == Credentials(settings.qobuz)
    IN CASE settings.file = "absent" ->
              none("Error: Settings file not found at " \o SettingsPath, <<>>)
         [] settings.file = "unparsable" ->
              none("Error: Could not parse JSON from " \o SettingsPath, <<>>)
         [] settings.file = "unreadable" ->
              none("Error loading settings: ", <<>>)
         [] settings.file = "no_qobuz" ->
              none("Error: 'qobuz' module settings not found in " \o SettingsPath, <<>>)
         [] OTHER ->
              IF Len(MissingKeys(credentials)) > 0
                THEN none("Error: Missing credentials in qobuz settings ("
                            \o SettingsPath \o "): "
                            \o JoinComma(MissingKeys(credentials)),
                          MissingKeys(credentials))
              ELSE IF HoldsPlaceholder(credentials)
                THEN none("Error: Placeholder credentials found in " \o SettingsPath
                            \o ". Please fill them in.", <<>>)
              ELSE [ok |-> TRUE, credentials |-> credentials, message |-> "",
                    named |-> <<>>]

\* the values a settings field may have
FieldValues(key) == {JAbsent, JNull, JStr(""), JStr("secret"), JStr(Placeholder(key))}

NoQobuz == [f \in {"app_id", "app_secret", "username", "password"} |-> JAbsent]

\* config/settings.json as the probe finds it
SettingsFiles ==
    {[file |-> f, qobuz |-> NoQobuz] : f \in {"absent", "unparsable", "unreadable", "no_qobuz"}}
    \cup {[file |-> "qobuz",
           qobuz |-> [f \in {"app_id", "app_secret", "username", "password"} |->
                        CASE f = "app_id" -> a [] f = "app_secret" -> b
                          [] f = "username" -> c [] OTHER -> d]] :
           a \in FieldValues("app_id"), b \in FieldValues("app_secret"),
           c \in FieldValues("email"), d \in FieldValues("password")}

\* a login that is tried again when it gave no token
RetryUnlessToken(outcome) == IF outcome = "token" THEN "done" ELSE "constructed"

\* where run_login_test goes after the login call: it reports and returns
AfterLogin(outcome) == "done"

\* the probe before run_login_test is called
\*   constructed, login_calls: how often Qobuz(...) returned a client and how
\*   often login was called (history); outcome: how the run ended
IdleProbe(settings) ==
    [pc |-> "idle", settings |-> settings, ok |-> FALSE, message |-> "", named |-> <<>>,
     constructed |-> 0, login_calls |-> 0, outcome |-> ""]

InitLogin ==
    /\ ui = "menu"
    /\ selected_albums = <<>>
    /\ album_urls = <<>>
    /\ last = Last("init", 0, "", FALSE)
    /\ fs = LinksFiles
    /\ pyhash = DefaultHash
    /\ gen = NoCall
    /\ sync = NoSync
    /\ fmt = NoFormat
    /\ \E settings \in SettingsFiles : probe = IdleProbe(settings)
    /\ search = NoSearch

\* run_login_test up to the try block: load the credentials, return when
\* there are none
StartProbe ==
    /\ probe.pc = "idle"
    /\ LET r == LoadCredentialsFromSettings(probe.settings)
       IN probe' = [probe EXCEPT !.ok = r.ok, !.message = r.message, !.named = r.named,
                                 !.pc = IF r.ok THEN "loaded" ELSE "done",
                                 !.outcome = IF r.ok THEN "" ELSE "no credentials"]
    /\ UNCHANGED <<ui, selected_albums, album_urls, last, fs, pyhash, gen, sync, fmt, search>>

\* qobuz_client = Qobuz(app_id, app_secret, TestQobuzError)
ConstructClient ==
    /\ probe.pc = "loaded"
    /\ probe' = [probe EXCEPT !.pc = "constructed", !.constructed = @ + 1]
    /\ UNCHANGED <<ui, selected_albums, album_urls, last, fs, pyhash, gen, sync, fmt, search>>

\* how the login call can end: a token, a falsy value, an exception
LoginOutcomes == {"token", "empty", "raised"}

\* await asyncio.to_thread(qobuz_client.login, email, password) and the
\* report of its outcome
Login(outcome) ==
    /\ probe.pc = "constructed"
    /\ probe.login_calls < MaxLogins
    /\ probe' = [probe EXCEPT !.login_calls = @ + 1, !.outcome = outcome,
                              !.pc = AfterLogin(outcome)]
    /\ UNCHANGED <<ui, selected_albums, album_urls, last, fs, pyhash, gen, sync, fmt, search>>

NextLogin ==
    \/ StartProbe
    \/ ConstructClient
    \/ \E outcome \in LoginOutcomes : Login(outcome)

SpecLogin == InitLogin /\ [][NextLogin]_vars

(***************************************************************************)
(* Claims about the selection lists, checked under Spec.  A claim about a  *)
(* command is stated for every command the user may type in the state at   *)
(* hand: the handler is applied to the lists of every reachable state.     *)
(***************************************************************************)
\* the token is an integer outside 1..n
OutOfRange(token, n) ==
    ParseInt(token).ok /\ (ParseInt(token).val < 1 \/ ParseInt(token).val > n)

AllIntegers(tokens) == \A i \in 1..Len(tokens) : ParseInt(tokens[i]).ok

\* the tokens are distinct integers within 1..n
DistinctValid(tokens, n) ==
    /\ \A i \in 1..Len(tokens) : ParseInt(tokens[i]).ok /\ ParseInt(tokens[i]).val \in 1..n
    /\ \A i, j \in 1..Len(tokens) : i # j => ParseInt(tokens[i]).val # ParseInt(tokens[j]).val

\* the k-th smallest element of a set of numbers
KthOf(S, k) == CHOOSE x \in S : Cardinality({y \in S : y <= x}) = k

\* seq restricted to the positions of the set keep, in their order
Restrict(seq, keep) == [k \in 1..Cardinality(keep) |-> seq[KthOf(keep, k)]]

\* seq with the entries at the 1-based positions of P deleted
Without(seq, P) == Restrict(seq, (1..Len(seq)) \ P)

\* C1: in both selectors the URL list and the selected-album list have the
\* same length after every add, remove, clear and load
C1_SameLength == Len(album_urls) = Len(selected_albums)

\* C2: a remove command with an integer token outside 1..n removes nothing:
\* both lists are as they were, also when other tokens are valid
C2_InvalidTokenRemovesNothing ==
    Len(selected_albums) > 0 =>
        \A tokens \in RemoveCmds :
            (\E i \in 1..Len(tokens) : OutOfRange(tokens[i], Len(selected_albums))) =>
                LET r == RemoveAlbums(ui, selected_albums, album_urls, tokens)
                IN r.albums = selected_albums /\ r.urls = album_urls

\* C3: a remove command with several out-of-range tokens reports every one of
\* them: the reports are the out-of-range tokens of the command, one each
C3_EveryInvalidTokenReported ==
    Len(selected_albums) > 0 =>
        \A tokens \in RemoveCmds :
            (/\ AllIntegers(tokens)
             /\ \E i, j \in 1..Len(tokens) :
                    /\ i # j
                    /\ OutOfRange(tokens[i], Len(selected_albums))
                    /\ OutOfRange(tokens[j], Len(selected_albums))) =>
                RemoveAlbums(ui, selected_albums, album_urls, tokens).reported
                    = SelectSeq(tokens, LAMBDA t : OutOfRange(t, Len(selected_albums)))

\* C4: a remove command of distinct integers within 1..n, in any order, deletes
\* exactly the entries at those positions from both lists and keeps every
\* other entry in its original order
C4_RemoveDeletesNamedPositions ==
    Len(selected_albums) > 0 =>
        \A tokens \in RemoveCmds :
            DistinctValid(tokens, Len(selected_albums)) =>
                LET r == RemoveAlbums(ui, selected_albums, album_urls, tokens)
                    P == {ParseInt(tokens[i]).val : i \in 1..Len(tokens)}
                IN /\ r.albums = Without(selected_albums, P)
                   /\ r.urls = Without(album_urls, P)
                   /\ r.removed = Len(tokens)

\* C4 happens: a remove command has removed two records and left some
C4_Witness ==
    /\ last.op = "remove" /\ last.count = 2
    /\ Len(selected_albums) >= 1
    /\ Len(album_urls) = Len(selected_albums)

\* the text of a file of the given lines; every line but possibly the last
\* ends with a line break
FileTexts(lines) ==
    {JoinLines(lines)} \cup
    (IF Len(lines) = 0 THEN {}
     ELSE {SubSeq(JoinLines(lines), 1, Len(JoinLines(lines)) - 1)})

\* the links files the load claims are stated for: the lines of the file, its
\* text, the lines readlines() gives for the text, and the lines stripped
LinkFiles ==
    UNION {{[lines    |-> ls,
             text     |-> t,
             read     |-> ReadLines(t),
             stripped |-> [i \in 1..Len(ls) |-> Strip(ls[i])]] : t \in FileTexts(ls)}
           : ls \in LinkFileLines}

\* the positions of the (stripped) lines that load: they start with 'http',
\* are not in urls and did not occur earlier in the file
FreshLines(stripped, urls) ==
    {i \in 1..Len(stripped) :
        /\ StartsWith(stripped[i], "http")
        /\ ~InSeq(urls, stripped[i])
        /\ \A j \in 1..(i - 1) : stripped[j] # stripped[i]}

C8_ReloadAddsNothing ==
    \A f \in LinkFiles :
        LET r1 == LoadLines(ui, selected_albums, album_urls, f.read, 0)
            r2 == LoadLines(ui, r1.albums, r1.urls, f.read, 0)
        IN r2.urls = r1.urls /\ r2.albums = r1.albums /\ r2.loaded_count = 0

\* C8 happens: a file with URLs in it was loaded twice in a row, and the
\* second load reported 0
C8_Witness ==
    /\ last.op = "load" /\ last.again /\ last.count = 0
    /\ last.file = "album_links.txt"
    /\ Len(album_urls) > 0

(***************************************************************************)
(* Claims about generate_album_url, checked under SpecUrl.                 *)
(***************************************************************************)
\* C5: generate_album_url never raises, whatever the module name and the
\* album record: every failure ends in the comment fallback
C5_NeverRaises == gen.called => ~gen.raised

SavedStep ==
    /\ \/ \E typed \in SaveNames, overwrite, io_error \in BOOLEAN :
             SaveWorkflow(typed, overwrite, io_error)
       \/ \E save \in BOOLEAN, typed \in SaveNames, io_error \in BOOLEAN :
             QuitApplication(save, typed, io_error)
    /\ last'.count > 0

\* C9: after a successful save the file holds exactly the entries of
\* album_urls in list order, each followed by a line break, nothing before
\* and nothing after; the save leaves both lists as they were
C9_SaveWritesUrlList ==
    [][SavedStep =>
         /\ Exists(fs', last'.file)
         /\ ReadLines(fs'[last'.file].text)
              = [i \in 1..Len(album_urls) |-> album_urls[i] \o "\n"]
         /\ selected_albums' = selected_albums
         /\ album_urls' = album_urls]_vars

\* C9 happens: a selection of two albums was saved under the default name
C9_Witness ==
    /\ last.op = "save" /\ last.count = 2 /\ last.file = "album_links.txt"
    /\ album_urls = <<"https://play.qobuz.com/album/111",
                      "https://play.qobuz.com/album/222">>
    /\ fs["album_links.txt"].text =
         "https://play.qobuz.com/album/111\nhttps://play.qobuz.com/album/222\n"

(***************************************************************************)
(* Claims about sync_music.py, checked under SpecSync.                     *)
(***************************************************************************)
\* C10: copy_file_with_structure decides to copy exactly when the destination
\* file does not exist, or is strictly older than the source file, or differs
\* from it in size; it skips exactly when the destination exists, is as new
\* as the source or newer, and has its size
C10_CopyDecision ==
    sync.decision.made =>
        LET s == sync.decision.src_file
            d == sync.decision.dest_before
        IN /\ sync.decision.was_copied <=>
                  (~d.exists \/ d.mtime < s.mtime \/ d.size # s.size)
           /\ ~sync.decision.was_copied <=>
                  (d.exists /\ d.mtime >= s.mtime /\ d.size = s.size)

\* C10 happens: a file whose destination is as old as it and of its size was
\* skipped, after a file whose destination differs only in size was copied
C10_Witness ==
    /\ sync.decision.made /\ ~sync.decision.was_copied
    /\ sync.decision.dest_before.exists
    /\ sync.decision.dest_before.mtime = sync.decision.src_file.mtime
    /\ sync.copied_files = 1 /\ sync.skipped_files = 1
    /\ ~sync.dry_run
    /\ sync.dest[Paths[1]] = sync.src[Paths[1]]

\* the destination files whose relative path has no counterpart in the source
ExtraFiles == {p \in PathSet : sync.dest[p].exists /\ ~sync.src[p].exists}

\* C11: with dry_run set, whatever delete_extra is, a run of sync_music
\* changes nothing: the destination root, the directories under it and the
\* files in it are at every point of the run as the run found them
C11_DryRunChangesNothing ==
    (sync.pc # "idle" /\ sync.dry_run) =>
        /\ sync.dest_exists = sync.before.dest_exists
        /\ sync.dirs = sync.before.dirs
        /\ sync.dest = sync.before.dest

\* C11 happens: a dry run with delete_extra ended after it counted a file as
\* copied, with an extra file in the destination
C11_Witness ==
    /\ sync.pc = "exited" /\ sync.dry_run /\ sync.delete_extra /\ sync.result
    /\ sync.copied_files >= 1
    /\ ExtraFiles # {}

C12_ConfirmedRunDeletesExtras ==
    (/\ sync.pc = "exited" /\ sync.result /\ sync.raised = "none"
     /\ sync.delete_extra /\ ~sync.dry_run /\ sync.asked) => ExtraFiles = {}

\* C13: after a run with dry_run unset that was confirmed and returned True,
\* every source file is in the destination at its relative path, with the
\* size of the source file, in a directory that exists
C13_EverySourceFileMirrored ==
    (/\ sync.pc = "exited" /\ sync.result /\ sync.raised = "none"
     /\ ~sync.dry_run /\ sync.asked) =>
        /\ sync.dest_exists
        /\ \A p \in PathSet :
              sync.src[p].exists =>
                  /\ sync.dest[p].exists
                  /\ sync.dest[p].size = sync.src[p].size
                  /\ DirOf(p) \in sync.dirs \cup {""}

\* C13 happens: a confirmed run created the destination root and a directory
\* under it and copied two files
C13_Witness ==
    /\ sync.pc = "exited" /\ sync.result /\ ~sync.dry_run /\ sync.asked
    /\ ~sync.before.dest_exists /\ sync.dest_exists
    /\ "d" \in sync.dirs
    /\ sync.copied_files = 2
    /\ sync.dest = sync.src

\* C19: the sync utility exits with 0 exactly when sync_music returned True;
\* it exits with 1 when the source directory is missing, when the user
\* declined, when an exception was raised and when the user interrupted
C19_ExitCode ==
    sync.pc = "exited" =>
        /\ sync.exit_code \in {0, 1}
        /\ sync.exit_code = 0 <=> (sync.result /\ sync.raised = "none")
        /\ ~sync.source_exists => sync.exit_code = 1
        /\ sync.raised \in {"Exception", "KeyboardInterrupt"} => sync.exit_code = 1
        /\ sync.result => (sync.source_exists /\ Len(sync.todo) = 0)

\* C19 happens: the user interrupted the copy loop after a file was copied,
\* and the exit code is 1
C19_Witness ==
    /\ sync.pc = "exited" /\ sync.raised = "KeyboardInterrupt"
    /\ sync.copied_files = 1 /\ Len(sync.todo) = 1
    /\ sync.exit_code = 1

(***************************************************************************)
(* Claims about format_size, checked under SpecSize.                       *)
(***************************************************************************)
\* the position of the unit in B, KB, MB, GB, TB; 6 for PB
UnitIndex(unit) ==
    IF unit = "PB" THEN Len(Units) + 1 ELSE CHOOSE k \in 1..Len(Units) : Units[k] = unit

\* the size divided k - 1 times by 1024
RECURSIVE DivTimes(_, _)
DivTimes(sz, k) == IF k = 1 THEN sz ELSE Div1024(DivTimes(sz, k - 1))

\* the value the size would be displayed as, in tenths, is under 1024.0
DisplayedUnder1024(sz) == IF sz.e > 0 THEN sz.m = 0 ELSE Tenths(sz) < 10240

\* C14: format_size uses the smallest unit among B, KB, MB, GB, TB for which
\* the displayed value is under 1024, and the largest unit when there is
\* none; 1023 gives '1023.0 B', 1536 gives '1.5 KB', 1024^4 gives '1.0 TB'
C14_DisplayedValueUnder1024 ==
    /\ fmt.called =>
          LET k == UnitIndex(fmt.out.unit)
          IN /\ k <= Len(Units) => DisplayedUnder1024(fmt.out.size)
             /\ \A i \in 1..(k - 1) :
                   i <= Len(Units) => ~DisplayedUnder1024(DivTimes(fmt.bytes, i))
    /\ FormatSize(Bytes(1023, 0)).text = "1023.0 B"
    /\ FormatSize(Bytes(1536, 0)).text = "1.5 KB"
    /\ FormatSize(Bytes(1, 4)).text = "1.0 TB"

\* C14 for the value before it is rounded for display: the unit is the
\* smallest for which the value is under 1024, PB when there is none, and
\* the three examples are as stated
C14_ValueUnder1024 ==
    /\ fmt.called =>
          LET k == UnitIndex(fmt.out.unit)
          IN /\ k <= Len(Units) => Below1024(DivTimes(fmt.bytes, k))
             /\ \A i \in 1..(k - 1) : i <= Len(Units) => ~Below1024(DivTimes(fmt.bytes, i))
             /\ fmt.out.size = DivTimes(fmt.bytes, k)
    /\ FormatSize(Bytes(1023, 0)).text = "1023.0 B"
    /\ FormatSize(Bytes(1536, 0)).text = "1.5 KB"
    /\ FormatSize(Bytes(1, 4)).text = "1.0 TB"

(***************************************************************************)
(* Claims about the login probe, checked under SpecLogin.                  *)
(***************************************************************************)
FieldNames == {"app_id", "app_secret", "username", "password"}

\* the settings field is absent or holds nothing
EmptyOrAbsent(v) == v \in {JAbsent, JNull, JStr("")}

PlaceholderOf(f) ==
    CASE f = "app_id"     -> "YOUR_APP_ID"
      [] f = "app_secret" -> "YOUR_APP_SECRET"
      [] f = "username"   -> "YOUR_QOBUZ_EMAIL"
      [] f = "password"   -> "YOUR_QOBUZ_PASSWORD"

EmptyFields(settings) == {f \in FieldNames : EmptyOrAbsent(settings.qobuz[f])}

PlaceholderFields(settings) ==
    {f \in FieldNames : settings.qobuz[f] = JStr(PlaceholderOf(f))}

\* the settings give no usable credentials
BadSettings(settings) ==
    \/ settings.file # "qobuz"
    \/ EmptyFields(settings) # {}
    \/ PlaceholderFields(settings) # {}

\* the name the message gives to a settings field
NameInMessage(f) == IF f = "username" THEN "email" ELSE f

Named == {probe.named[i] : i \in 1..Len(probe.named)}

\* C15: when the settings file is absent, unparsable or without a qobuz
\* section, or one of the four credentials is missing, empty or a
\* placeholder, the run ends with no client constructed and no login call.
C15_BadSettingsNeverLogin ==
    BadSettings(probe.settings) =>
        /\ probe.pc \in {"idle", "done"}
        /\ probe.constructed = 0
        /\ probe.login_calls = 0
        /\ probe.pc = "done" => ~probe.ok

C15_Witness ==
    /\ probe.pc = "done"
    /\ probe.settings.file = "qobuz"
    /\ EmptyFields(probe.settings) = {}
    /\ PlaceholderFields(probe.settings) = {"password"}
    /\ probe.constructed = 0 /\ probe.login_calls = 0

\* C16: when one or more of the four fields is empty or absent, the loader
\* returns None and its message lists exactly those fields (username under
\* the name email), each once, and no field that has a value.
C16_MissingFieldsNamed ==
    (probe.pc # "idle" /\ probe.settings.file = "qobuz"
        /\ EmptyFields(probe.settings) # {}) =>
        /\ ~probe.ok
        /\ Named = {NameInMessage(f) : f \in EmptyFields(probe.settings)}
        /\ Len(probe.named) = Cardinality(EmptyFields(probe.settings))
        /\ probe.message = "Error: Missing credentials in qobuz settings ("
                             \o SettingsPath \o "): " \o JoinComma(probe.named)

C16_Witness ==
    /\ probe.pc = "done"
    /\ probe.settings.file = "qobuz"
    /\ EmptyFields(probe.settings) = {"app_secret", "username"}
    /\ probe.named = <<"app_secret", "email">>
    /\ probe.settings.qobuz["password"] = JStr("YOUR_QOBUZ_PASSWORD")

\* C17: when all four fields are non-empty and one or more holds its
\* placeholder, the loader returns None and its message names every field
\* that holds a placeholder.
C17_PlaceholderFieldsNamed ==
    (probe.pc # "idle" /\ probe.settings.file = "qobuz"
        /\ EmptyFields(probe.settings) = {}
        /\ PlaceholderFields(probe.settings) # {}) =>
        /\ ~probe.ok
        /\ {NameInMessage(f) : f \in PlaceholderFields(probe.settings)} \subseteq Named

\* in that case the loader does return None, and its message is the same
\* whichever field holds the placeholder
C17_PlaceholderRejected ==
    (probe.pc # "idle" /\ probe.settings.file = "qobuz"
        /\ EmptyFields(probe.settings) = {}
        /\ PlaceholderFields(probe.settings) # {}) =>
        /\ ~probe.ok
        /\ probe.named = <<>>
        /\ probe.message = "Error: Placeholder credentials found in " \o SettingsPath
                             \o ". Please fill them in."

Lists(r) == <<r.albums, r.urls>>

\* both selectors leave the same lists after 'remove <tokens>'
SameRemove(tokens) ==
    Lists(RemoveAlbums("menu", selected_albums, album_urls, tokens))
        = Lists(RemoveAlbums("tui", selected_albums, album_urls, tokens))

\* both selectors leave the same lists after loading the lines read
SameLoad(lines) ==
    Lists(LoadLines("menu", selected_albums, album_urls, lines, 0))
        = Lists(LoadLines("tui", selected_albums, album_urls, lines, 0))

\* both selectors leave the same lists after adding the albums
SameAdd(albums) ==
    Lists(AddSelected("menu", selected_albums, album_urls, "qobuz", albums, "X"))
        = Lists(AddSelected("tui", selected_albums, album_urls, "qobuz", albums, "X"))

\* both selectors leave the same lists after a clear that the user confirms
SameClear ==
    Lists(ClearAlbums("menu", selected_albums, album_urls, TRUE))
        = Lists(ClearAlbums("tui", selected_albums, album_urls, TRUE))

\* C20: from the same selection, the same operation (add albums, remove by
\* index list, confirmed clear, load file) leaves the menu selector and the
\* TUI selector with identical selected_albums and album_urls; so do equal
\* sequences of operations.
C20_SelectorsAgree ==
    /\ \A albums \in AlbumPicks \cup {<<a>> : a \in UrlAlbums} : SameAdd(albums)
    /\ Len(selected_albums) > 0 => \A tokens \in RemoveCmds : SameRemove(tokens)
    /\ SameClear
    /\ \A f \in LinkFiles : SameLoad(f.read)

\* the remove commands alone: the selectors differ when a command mixes
\* valid tokens with an integer out of range
C20_SelectorsAgreeOnRemove ==
    Len(selected_albums) > 0 => \A tokens \in RemoveCmds : SameRemove(tokens)

\* the selectors do agree on the adds of catalog albums, on remove commands
\* whose tokens are all valid, on a confirmed clear, and on files without a
\* line that urlparse rejects
C20_SelectorsAgreeOnValidInput ==
    /\ \A albums \in AlbumPicks : SameAdd(albums)
    /\ Len(selected_albums) > 0 =>
          \A tokens \in RemoveCmds :
              DistinctValid(tokens, Len(selected_albums)) => SameRemove(tokens)
    /\ SameClear
    /\ \A f \in LinkFiles :
          (\A i \in 1..Len(f.stripped) : ~UrlparseRaises(f.stripped[i])) => SameLoad(f.read)

(***************************************************************************)
(* The pairing of the two lists, checked under Spec.                       *)
(***************************************************************************)
\* the URL that belongs to a record: the one read with it for a loaded
\* record, the one generate_album_url gives for an added record
UrlOfRecord(rec) ==
    IF "url" \in DOMAIN rec THEN rec.url
    ELSE GenerateAlbumUrl(ui, rec.module, rec.album_info).url

PairedByPosition ==
    /\ Len(album_urls) = Len(selected_albums)
    /\ \A i \in 1..Len(selected_albums) : album_urls[i] = UrlOfRecord(selected_albums[i])

\* C21: after any sequence of add, remove, clear and load operations the
\* two lists are paired by position: album_urls[i] is the URL generated for,
\* or read together with, the record selected_albums[i].
C21_PairedByPosition == PairedByPosition

\* in the TUI selector the lists do stay paired
C21_PairedInTui == ui = "tui" => PairedByPosition

(***************************************************************************)
(* Claims about the URL generate_album_url builds, checked under SpecUrl.  *)
(***************************************************************************)
IdAttrs == <<"album_id", "id", "albumId", "albumID">>

\* the value the record carries under an identifier attribute, "" when it
\* has no such attribute
IdValue(album, a) ==
    IF ~HasAttr(album, a) THEN ""
    ELSE CASE a = "album_id" -> album.album_id
           [] a = "id"       -> album.id
           [] a = "albumId"  -> album.albumId
           [] OTHER          -> album.albumID

\* the first non-empty identifier of the record in the order album_id, id,
\* albumId, albumID; "" when it carries none
FirstIdentifier(album) ==
    LET found == SelectSeq(IdAttrs, LAMBDA a : IdValue(album, a) # "")
    IN IF Len(found) = 0 THEN "" ELSE IdValue(album, Head(found))

\* the last call was made by the running process and returned a URL, not
\* the comment line
ReturnedUrl ==
    gen.called /\ ~gen.stale /\ ~gen.raised /\ StartsWith(gen.url, "https://")

\* C22: the URL ends with the first non-empty identifier among album_id,
\* id, albumId, albumID of the record; the hash-derived pseudo-identifier is
\* used only when the record carries none of them.
C22_FirstIdentifierUsed ==
    ReturnedUrl =>
        IF FirstIdentifier(gen.album) # ""
          THEN EndsWith(gen.url, "/" \o FirstIdentifier(gen.album))
          ELSE EndsWith(gen.url, "/" \o PseudoId(gen.album))

\* what both selectors do: a non-empty album_id ends the URL, else the id
\* attribute when the record has a non-empty one, and the pseudo-identifier
\* when the record carries no identifier at all
C22_AlbumIdThenId ==
    ReturnedUrl =>
        /\ IdValue(gen.album, "album_id") # "" =>
              EndsWith(gen.url, "/" \o gen.album.album_id)
        /\ (IdValue(gen.album, "album_id") = "" /\ IdValue(gen.album, "id") # "") =>
              EndsWith(gen.url, "/" \o gen.album.id)
        /\ FirstIdentifier(gen.album) = "" =>
              EndsWith(gen.url, "/" \o PseudoId(gen.album))

\* the domain of a service, as the claim tabulates it
DomainTable ==
    [n \in {"qobuz", "tidal", "spotify", "deezer", "apple"} |->
        CASE n = "qobuz"   -> "play.qobuz.com"
          [] n = "tidal"   -> "tidal.com"
          [] n = "spotify" -> "open.spotify.com"
          [] n = "deezer"  -> "deezer.com"
          [] OTHER         -> "music.apple.com"]

ExpectedDomain(service) ==
    IF service \in DOMAIN DomainTable THEN DomainTable[service] ELSE service \o ".com"

\* the route the table maps to the album type, 'album' when it has none
ExpectedPath(url_constants) ==
    LET routes == {i \in 1..Len(url_constants) : url_constants[i].type = "album"}
    IN IF routes = {} THEN "album"
       ELSE url_constants[CHOOSE i \in routes : \A j \in routes : i <= j].path

\* the URL is https://<domain>/<path>/<id> with a non-empty <id>
UrlOfShape(url, domain, path) ==
    LET head == "https://" \o domain \o "/" \o path \o "/"
    IN /\ StartsWith(url, head)
       /\ Len(url) > Len(head)
       /\ ~HasChar(SubSeq(url, Len(head) + 1, Len(url)), "/")

\* C23: when no step fails, generate_album_url returns
\* https://<domain>/<path>/<id>: <domain> is the table entry of the service
\* (its netlocation constant, the first one of a list), <service>.com for a
\* service outside the table; <path> is the route url_constants maps to the
\* album type, 'album' when the table is empty or has no album route.
C23_UrlShape ==
    ReturnedUrl =>
        LET st == module_settings[gen.module]
        IN UrlOfShape(gen.url, ExpectedDomain(st.netlocation_constant[1]),
                      ExpectedPath(st.url_constants))

C23_Witness ==
    /\ ReturnedUrl
    /\ gen.module = "mymusic"
    /\ gen.url = "https://mymusic.com/release/88"

\* the part of a URL after its last '/'
RECURSIVE LastSegment(_)
LastSegment(url) ==
    IF ~HasChar(url, "/") THEN url
    ELSE LastSegment(SubSeq(url, FindAny(url, {"/"}, 1) + 1, Len(url)))

\* the last call fell back to the hash: it returned a URL for a record in
\* which the probing found no identifier
UsedPseudoId == ReturnedUrl /\ NoIdentifier(ui, gen.album)

\* C24: whenever generate_album_url falls back to the hash-derived
\* pseudo-identifier, the identifier is a string of exactly 10 decimal
\* digits, for every value the hash can take.
C24_TenDigits ==
    UsedPseudoId =>
        /\ Len(LastSegment(gen.url)) = 10
        /\ AllDigits(LastSegment(gen.url))

\* the identifier is the decimal text of |hash| cut to 10 characters: one to
\* ten decimal digits, ten when |hash| has ten digits or more
C24_AtMostTenDigits ==
    UsedPseudoId =>
        LET id == LastSegment(gen.url)
            h  == AbsStr(PyHash(HashKey(gen.album)))
        IN /\ Len(id) \in 1..10
           /\ AllDigits(id)
           /\ Len(h) >= 10 => Len(id) = 10
           /\ id = Prefix(h, 10)

\* the text has only alphanumeric, space, hyphen and underscore characters
OnlySafe(s) ==
    \A i \in 1..Len(s) : IsAlnum(Chr(s, i)) \/ Chr(s, i) \in {" ", "-", "_"}

\* the last call returned the comment line
ReturnedComment == gen.called /\ ~gen.raised /\ StartsWith(gen.url, "# ")

\* C25: the comment fallback is '# <name> (<year>) - <artist>' where name,
\* year and artist are the texts of the record with every character other
\* than alphanumeric, space, hyphen and underscore dropped.
C25_CommentSanitized ==
    ReturnedComment =>
        \E name, year, artist \in
              {KeepSafe(gen.album.name), Strip(KeepSafe(gen.album.name)),
               KeepSafe(gen.album.release_year), KeepSafe(gen.album.artist)} :
            /\ OnlySafe(name) /\ OnlySafe(year) /\ OnlySafe(artist)
            /\ gen.url = "# " \o name \o " (" \o year \o ") - " \o artist

\* the album name is sanitized and stripped; year and artist are as the
\* record holds them
C25_NameSanitized ==
    ReturnedComment =>
        LET name == Strip(KeepSafe(gen.album.name))
        IN /\ OnlySafe(name)
           /\ gen.url = "# " \o name \o " (" \o gen.album.release_year
                          \o ") - " \o gen.album.artist

(***************************************************************************)
(* Claims about the search workflow, checked under SpecSearch.             *)
(***************************************************************************)
\* the albums of the ids whose lookup succeeded, in the artist's order
Succeeded(ids, failing) ==
    LET ok == {i \in 1..Len(ids) : ids[i] \notin failing}
    IN [k \in 1..Cardinality(ok) |-> AlbumInfoWithId(ids[KthOf(ok, k)])]

\* what the workflow holds after the call: the albums shown, none when the
\* loop went back to its prompt
AlbumsFetched == IF search.pc = "albums" THEN search.albums ELSE <<>>

ResultsFetched == IF search.pc = "results" THEN search.results ELSE <<>>

\* C26: collaborator failures are contained per call.  When get_album_info
\* fails for some ids, get_artist_albums returns exactly the albums whose
\* lookup succeeded, in the artist's order; when search, get_artist_info or
\* load_module fails the result is empty.  The workflow is then at its
\* prompt or goes on with what was fetched, and both lists are as before.
C26_FailuresContained ==
    /\ search.step = "albums" =>
          /\ AlbumsFetched = IF search.outcome = "ok"
                                THEN Succeeded(search.ids, search.failing) ELSE <<>>
          /\ Len(AlbumsFetched) = 0 => search.pc = "prompt"
          /\ <<selected_albums, album_urls>> = search.before
    /\ search.step = "search" =>
          /\ search.outcome # "ok" => (ResultsFetched = <<>> /\ search.pc = "prompt")
          /\ <<selected_albums, album_urls>> = search.before
    /\ search.pc \in {"prompt", "results", "albums"}

\* one of two lookups failed with one album selected before: the other
\* album is shown and the selection is as it was
C26_Witness ==
    /\ search.step = "albums" /\ search.pc = "albums"
    /\ search.outcome = "ok"
    /\ search.ids = <<"111", "222">> /\ search.failing = {"111"}
    /\ search.albums = <<Catalog[2]>>
    /\ Len(selected_albums) = 1

(***************************************************************************)
(* Remove commands that repeat a position, checked under Spec.             *)
(***************************************************************************)
\* every token is an integer within 1..n and some position is named twice
RepeatsValid(tokens, n) ==
    /\ \A i \in 1..Len(tokens) : ParseInt(tokens[i]).ok /\ ParseInt(tokens[i]).val \in 1..n
    /\ \E i, j \in 1..Len(tokens) :
          i # j /\ ParseInt(tokens[i]).val = ParseInt(tokens[j]).val

\* C27: a remove command that names the same valid position more than once
\* removes that record exactly once and no record whose position was not
\* named; the number of records removed is the number of distinct positions.
C27_RepeatedPositionRemovedOnce ==
    Len(selected_albums) > 0 =>
        \A tokens \in RemoveCmds :
            RepeatsValid(tokens, Len(selected_albums)) =>
                LET r == RemoveAlbums(ui, selected_albums, album_urls, tokens)
                    P == {ParseInt(tokens[i]).val : i \in 1..Len(tokens)}
                IN /\ r.albums = Without(selected_albums, P)
                   /\ r.urls = Without(album_urls, P)
                   /\ r.removed = Cardinality(P)

\* what the pops do with a repeated position: the record at the position
\* is removed, and each repetition removes the record that moved into it
C27_RepeatedPositionRemovesNext ==
    (Len(selected_albums) >= 2 /\ Len(album_urls) = Len(selected_albums)) =>
        LET r == RemoveAlbums(ui, selected_albums, album_urls, <<"1", "1">>)
        IN /\ r.albums = SubSeq(selected_albums, 3, Len(selected_albums))
           /\ r.urls = SubSeq(album_urls, 3, Len(album_urls))
           /\ r.removed = 2

(***************************************************************************)
(* Overwriting of files, checked under SpecFile.                           *)
(***************************************************************************)
\* the step replaces the contents of a file that existed before it
OverwritesExisting ==
    \E f \in DOMAIN fs : Exists(fs, f) /\ fs'[f] # fs[f]

\* the step is a save_workflow in which the user answered yes to 'Overwrite?'
ConfirmedOverwrite ==
    \E typed \in SaveNames, io_error \in BOOLEAN : SaveWorkflow(typed, TRUE, io_error)

\* C28: an existing file is never overwritten unless the user has confirmed
\* overwriting it, on every path that writes the links file: the save
\* option of the menu and the save offered by quit_application.
C28_NoOverwriteWithoutConfirmation ==
    [][OverwritesExisting => ConfirmedOverwrite]_vars

\* the save option alone overwrites only after the confirmation
C28_SaveWorkflowAsks ==
    [][(OverwritesExisting /\ last'.op = "save") => ConfirmedOverwrite]_vars

(***************************************************************************)
(* Repeated runs of sync_music, checked under SpecSync.                    *)
(***************************************************************************)
\* this run follows a completed run on the trees that run left, with the
\* same delete_extra, and is itself confirmed and not a dry run
SecondSync ==
    /\ sync.pc # "idle"
    /\ sync.prior.completed
    /\ sync.delete_extra = sync.prior.delete_extra
    /\ ~sync.dry_run

\* C29: when a confirmed sync that was not a dry run has completed and
\* neither tree is changed, a second sync copies no file, skips every source
\* file and leaves the destination tree as it is.
C29_SecondSyncCopiesNothing ==
    SecondSync =>
        /\ sync.copied_files = 0
        /\ sync.decision.made => ~sync.decision.was_copied
        /\ sync.dest = sync.before.dest /\ sync.dirs = sync.before.dirs
        /\ (sync.pc = "exited" /\ sync.result) =>
              /\ sync.skipped_files = Len(GetAllFiles(sync.src))
              /\ sync.deleted_files = 0

\* the second sync of a tree of two files has returned True, the first one
\* having replaced an older and a larger destination file
C29_Witness ==
    /\ SecondSync
    /\ sync.pc = "exited" /\ sync.result /\ sync.asked
    /\ sync.skipped_files = 2 /\ sync.copied_files = 0
    /\ \A p \in PathSet : sync.dest[p] = sync.src[p]

(***************************************************************************)
(* Save followed by load, checked under SpecFile.                          *)
(***************************************************************************)
\* the entries of a list that start with 'http', in their order
HttpEntries(urls) == SelectSeq(urls, LAMBDA u : StartsWith(u, "http"))

\* a list with only the first occurrence of each entry kept
RECURSIVE FirstOccurrences(_)
FirstOccurrences(seq) ==
    IF Len(seq) = 0 THEN <<>>
    ELSE LET front == FirstOccurrences(SubSeq(seq, 1, Len(seq) - 1))
             x == seq[Len(seq)]
         IN IF \E i \in 1..Len(front) : front[i] = x THEN front ELSE Append(front, x)

\* the URL list of a selector with an empty selection after it loaded the
\* file that a save of the present selection writes
SavedThenLoaded == LoadText(ui, <<>>, <<>>, WriteUrls(album_urls)).urls

\* C30 as stated: saving a selection and loading the file into an empty
\* selection yields the saved list restricted to its entries that start
\* with 'http', in the same order and with every occurrence of each URL.
C30_RoundTripKeepsOccurrences ==
    Len(album_urls) > 0 => SavedThenLoaded = HttpEntries(album_urls)

\* C30 as the code has it: the load yields the entries of the saved list
\* that start with 'http' once stripped, in the order of their first
\* occurrence, each URL once.
C30_RoundTripFirstOccurrences ==
    Len(album_urls) > 0 =>
        SavedThenLoaded =
            FirstOccurrences(HttpEntries([i \in 1..Len(album_urls) |-> Strip(album_urls[i])]))

\* a selection of two different albums was saved, the selector started
\* again, and the file loaded into its empty selection
C30_Witness ==
    /\ last.op = "load" /\ last.count = 2 /\ last.file = "album_links.txt"
    /\ fs["album_links.txt"].text =
         "https://play.qobuz.com/album/111\nhttps://play.qobuz.com/album/222\n"
    /\ album_urls = <<"https://play.qobuz.com/album/111",
                      "https://play.qobuz.com/album/222">>

====
